---- MODULE Spec2Model ----
(***************************************************************************)
(* Model of the payment instruction processor                              *)
(* (src/services/payment-processor/parse-instruction.js).                  *)
(*                                                                         *)
(* A JavaScript string is a sequence of one-character strings, so that     *)
(* split, toUpperCase, Number, the account id scan, the date shape test    *)
(* and the relational string comparison are computed character by          *)
(* character, as the code computes them.  The empty sequence stands for    *)
(* the falsy values null and undefined of a string-typed slot: splitData   *)
(* drops empty words, so no token is ever the empty string.                *)
(***************************************************************************)
EXTENDS Integers, Sequences, FiniteSets, TLC

(* ------------------------------------------------------------------ *)
(* Bounds of the model                                                 *)
(* ------------------------------------------------------------------ *)

\* Total money held by the two supplied accounts at the start.
MaxBalance == 2

\* Number of calendar days the clock can advance.
MaxDays == 1

(* ------------------------------------------------------------------ *)
(* Characters                                                          *)
(* ------------------------------------------------------------------ *)

\* The printable ASCII characters in code-unit order, U+0020 .. U+007E
\* (the double quote, the backslash and the grave accent are written by
\* their code point).
Printable ==
  << " ", "!", "U+0022", "#", "$", "%", "&", "'", "(", ")", "*", "+", ",", "-", ".", "/",
     "0", "1", "2", "3", "4", "5", "6", "7", "8", "9", ":", ";", "<", "=", ">", "?",
     "@", "A", "B", "C", "D", "E", "F", "G", "H", "I", "J", "K", "L", "M", "N", "O",
     "P", "Q", "R", "S", "T", "U", "V", "W", "X", "Y", "Z", "[", "U+005C", "]", "^", "_",
     "U+0060", "a", "b", "c", "d", "e", "f", "g", "h", "i", "j", "k", "l", "m", "n", "o",
     "p", "q", "r", "s", "t", "u", "v", "w", "x", "y", "z", "{", "|", "}", "~" >>

CharSet == { Printable[i] : i \in 1..Len(Printable) }

\* UTF-16 code unit of a character.
CodeTable == [ c \in CharSet |-> 31 + (CHOOSE i \in 1..Len(Printable) : Printable[i] = c) ]

Code(c) == CodeTable[c]

\* String.prototype.toUpperCase on one character.
UpperChar(c) == IF Code(c) >= 97 /\ Code(c) <= 122 THEN Printable[Code(c) - 32 - 31] ELSE c

\* String.prototype.toUpperCase.
toUpperCase(s) == [ i \in 1..Len(s) |-> UpperChar(s[i]) ]

\* The relational comparison a > b of two strings: code units, left to
\* right, a proper prefix being the smaller.
RECURSIVE StrGreater(_, _)
StrGreater(a, b) ==
  IF a = <<>> THEN FALSE
  ELSE IF b = <<>> THEN TRUE
  ELSE IF Code(Head(a)) # Code(Head(b)) THEN Code(Head(a)) > Code(Head(b))
  ELSE StrGreater(Tail(a), Tail(b))

\* Falsy value of a string slot (null / undefined).
Absent == <<>>

\* keywords[i] with the zero-based index of the source.
At(keywords, i) == IF i + 1 <= Len(keywords) THEN keywords[i + 1] ELSE Absent

(* ------------------------------------------------------------------ *)
(* Numbers                                                             *)
(* ------------------------------------------------------------------ *)

\* A JavaScript number that a decimal literal can denote:
\* mant / 10^scale, scale minimal; NaN; or the null of an unset slot.
Num(m, s) == [kind |-> "num", mant |-> m, scale |-> s]
NaN == [kind |-> "nan", mant |-> 0, scale |-> 0]
NullNum == [kind |-> "null", mant |-> 0, scale |-> 0]

IsDigit(c) == Code(c) >= 48 /\ Code(c) <= 57

RECURSIVE DigitsValue(_)
DigitsValue(s) ==
  IF s = <<>> THEN 0
  ELSE 10 * DigitsValue(SubSeq(s, 1, Len(s) - 1)) + (Code(s[Len(s)]) - 48)

RECURSIVE Normalise(_, _)
Normalise(m, s) ==
  IF s > 0 /\ m % 10 = 0 THEN Normalise(m \div 10, s - 1) ELSE Num(m, s)

\* Number(str) for the StrDecimalLiteral part of the grammar: an optional
\* sign, digits with at most one decimal point, at least one digit.  Any
\* other word of the instruction alphabet used here (letters, punctuation)
\* is not a numeric literal once upper-cased and converts to NaN.
Number(str) ==
  LET signed == str # <<>> /\ str[1] \in {"+", "-"}
      body   == IF signed THEN Tail(str) ELSE str
      dots   == { i \in 1..Len(body) : body[i] = "." }
      shape  == /\ \A i \in 1..Len(body) : IsDigit(body[i]) \/ body[i] = "."
                /\ Cardinality(dots) <= 1
                /\ \E i \in 1..Len(body) : IsDigit(body[i])
      dot    == IF dots = {} THEN Len(body) + 1 ELSE CHOOSE i \in dots : TRUE
      whole  == SubSeq(body, 1, dot - 1)
      frac   == SubSeq(body, dot + 1, Len(body))
      mag    == DigitsValue(whole \o frac)
      sgn    == IF signed /\ str[1] = "-" THEN -1 ELSE 1
  IN  IF shape THEN Normalise(sgn * mag, Len(frac)) ELSE NaN

\* Number.isInteger(value) && value > 0
isPositiveInteger(value) == value.kind = "num" /\ value.scale = 0 /\ value.mant > 0

\* Truthiness of a number: NaN, 0 and null are falsy.
Truthy(value) == value.kind = "num" /\ value.mant # 0

(* ------------------------------------------------------------------ *)
(* Utility functions of the parser                                     *)
(* ------------------------------------------------------------------ *)

\* data.split(' ').filter(Boolean)
RECURSIVE SplitFrom(_, _, _)
SplitFrom(data, i, word) ==
  IF i > Len(data) THEN (IF word = <<>> THEN <<>> ELSE <<word>>)
  ELSE IF data[i] = " "
       THEN (IF word = <<>> THEN <<>> ELSE <<word>>) \o SplitFrom(data, i + 1, <<>>)
       ELSE SplitFrom(data, i + 1, Append(word, data[i]))

splitData(data) == SplitFrom(data, 1, <<>>)

\* The character test of isValidAccountId.
ValidIdChar(c) ==
  \/ Code(c) >= Code("A") /\ Code(c) <= Code("Z")
  \/ Code(c) >= Code("a") /\ Code(c) <= Code("z")
  \/ Code(c) >= Code("0") /\ Code(c) <= Code("9")
  \/ c = "-"
  \/ c = "."
  \/ c = "@"

\* isValidAccountId on a string.
isValidAccountId(id) == \A i \in 1..Len(id) : ValidIdChar(id[i])


(* ------------------------------------------------------------------ *)
(* Words of the grammar                                                *)
(* ------------------------------------------------------------------ *)

DEBIT == <<"D", "E", "B", "I", "T">>
CREDIT == <<"C", "R", "E", "D", "I", "T">>
FROM == <<"F", "R", "O", "M">>
TO == <<"T", "O">>
FOR == <<"F", "O", "R">>
ACCOUNT == <<"A", "C", "C", "O", "U", "N", "T">>
ON == <<"O", "N">>

\* const supported = ['NGN', 'USD', 'GBP', 'GHS']
supported ==
  { <<"N", "G", "N">>, <<"U", "S", "D">>, <<"G", "B", "P">>, <<"G", "H", "S">> }

\* The two keyword skeletons of isOutOfOrder; Absent marks a free position.
ExpectedDebit ==
  << DEBIT, Absent, Absent, FROM, ACCOUNT, Absent, FOR, CREDIT, TO, ACCOUNT >>

ExpectedCredit ==
  << CREDIT, Absent, Absent, TO, ACCOUNT, Absent, FOR, DEBIT, FROM, ACCOUNT >>

\* The loop over one expected array: some fixed position does not match.
\* keywords[i]?.toUpperCase() of a missing token is undefined, which differs
\* from every expected word.
SkeletonMismatch(keywords, expected) ==
  \E i \in 0..(Len(expected) - 1) :
     /\ expected[i + 1] # Absent
     /\ toUpperCase(At(keywords, i)) # expected[i + 1]

isOutOfOrder(keywords, type) ==
  \/ type = DEBIT /\ SkeletonMismatch(keywords, ExpectedDebit)
  \/ type = CREDIT /\ SkeletonMismatch(keywords, ExpectedCredit)
  \/ At(keywords, 11) # Absent /\ toUpperCase(At(keywords, 11)) # ON

(* ------------------------------------------------------------------ *)
(* Responses                                                           *)
(* ------------------------------------------------------------------ *)

\* const parsed = { type: null, ..., accounts: [] }
EmptyParsed ==
  [ type |-> Absent, amount |-> NullNum, currency |-> Absent,
    debit_account |-> Absent, credit_account |-> Absent,
    execute_by |-> Absent, accounts |-> <<>> ]

\* parsed.amount || null
AmountOrNull(value) == IF Truthy(value) THEN value ELSE NullNum

\* errorCode is the code handed to throwAppError, or "undefined" for an
\* error the runtime raised (it carries no errorCode property).
buildErrorResponse(errorCode, parsed) ==
  [ type |-> parsed.type,
    amount |-> AmountOrNull(parsed.amount),
    currency |-> parsed.currency,
    debit_account |-> parsed.debit_account,
    credit_account |-> parsed.credit_account,
    execute_by |-> parsed.execute_by,
    status |-> "failed",
    status_code |-> errorCode,
    accounts |-> parsed.accounts ]

\* accounts.find((a) => a.id === id): index of the first match, 0 for
\* undefined.  An undefined id equals no string.
Find(accounts, id) ==
  IF id = Absent \/ ~(\E i \in 1..Len(accounts) : accounts[i].id = id) THEN 0
  ELSE CHOOSE i \in 1..Len(accounts) :
         /\ accounts[i].id = id
         /\ \A j \in 1..(i - 1) : accounts[j].id # id

Snapshot(acc, before) ==
  [ id |-> acc.id, balance |-> acc.balance, balance_before |-> before,
    currency |-> acc.currency ]

\* The snapshot list of the catch block: [debit, credit].filter(Boolean),
\* built only when both ids are truthy.
ErrorSnapshots(parsed, accounts) ==
  LET d == Find(accounts, parsed.debit_account)
      c == Find(accounts, parsed.credit_account)
  IN  IF parsed.debit_account # Absent /\ parsed.credit_account # Absent
      THEN (IF d # 0 THEN <<Snapshot(accounts[d], accounts[d].balance)>> ELSE <<>>)
           \o (IF c # 0 THEN <<Snapshot(accounts[c], accounts[c].balance)>> ELSE <<>>)
      ELSE parsed.accounts

\* The catch block: nothing was written to the account records.
Caught(errorCode, parsed, accounts) ==
  [ response |-> buildErrorResponse(errorCode,
                   [parsed EXCEPT !.accounts = ErrorSnapshots(parsed, accounts)]),
    accounts |-> accounts,
    writes |-> 0 ]


(* ------------------------------------------------------------------ *)
(* parseInstruction                                                    *)
(* ------------------------------------------------------------------ *)

\* raw.map((word, index) => index === 5 || index === 10 ? word : word.toUpperCase())
Normalize(raw) ==
  [ i \in 1..Len(raw) |-> IF i - 1 = 5 \/ i - 1 = 10 THEN raw[i] ELSE toUpperCase(raw[i]) ]

\* Variant: the first account position is always the debit account.
AssignRolesFirstIsDebit(type, debitAccId, creditAccId) ==
  [debit_account |-> debitAccId, credit_account |-> creditAccId]

\* Debit / credit roles of the two account positions, by type.
AssignRoles(type, debitAccId, creditAccId) ==
  IF type = DEBIT
  THEN [debit_account |-> debitAccId, credit_account |-> creditAccId]
  ELSE [debit_account |-> creditAccId, credit_account |-> debitAccId]

\* Number.isNaN(amount) || amount <= 0 || !isPositiveInteger(amount)
InvalidAmount(amount) ==
  \/ amount.kind = "nan"
  \/ amount.kind = "num" /\ amount.mant <= 0
  \/ ~isPositiveInteger(amount)

\* !dateString || dateString.length !== 10 || dateString[4] !== '-' || dateString[7] !== '-'
InvalidDate(dateString) ==
  \/ dateString = Absent
  \/ Len(dateString) # 10
  \/ dateString[5] # "-"
  \/ dateString[8] # "-"

\* The two CU01 tests.
CurrencyMismatch(currency, debitAcc, creditAcc) ==
  \/ debitAcc.currency # creditAcc.currency
  \/ currency # toUpperCase(debitAcc.currency)

\* Variant: the comparison reads today > execute_by.
IsScheduledReversed(execute_by, today) ==
  execute_by # Absent /\ StrGreater(today, execute_by)

\* Variant: the comparison reads execute_by >= today.
IsScheduledFromToday(execute_by, today) ==
  execute_by # Absent /\ (StrGreater(execute_by, today) \/ execute_by = today)

\* parsed.execute_by && parsed.execute_by > today
IsScheduled(execute_by, today) ==
  execute_by # Absent /\ StrGreater(execute_by, today)

\* Variant: the credit line is missing.
TransferDebitOnly(accounts, d, c, amount) ==
  [ accounts EXCEPT ![d].balance = @ - amount ]

\* debitAcc.balance -= amount; creditAcc.balance += amount
Transfer(accounts, d, c, amount) ==
  [ accounts EXCEPT ![d].balance = @ - amount, ![c].balance = @ + amount ]

\* Variant: the balance update is not guarded by the status.
SettleUnguarded(accounts, d, c, amount, pending) ==
  Transfer(accounts, d, c, amount)

\* if (status === 'successful') { ...balance update... }
Settle(accounts, d, c, amount, pending) ==
  IF pending THEN accounts ELSE Transfer(accounts, d, c, amount)

\* The body of the try block after the structural checks, from the role
\* assignment on.  keywords has at least 8 tokens here.
Process(keywords, accounts, today) ==
  LET roles   == AssignRoles(At(keywords, 0), At(keywords, 5), At(keywords, 10))
      amount  == Number(At(keywords, 1))
      p1      == [ EmptyParsed EXCEPT !.debit_account = roles.debit_account,
                                      !.credit_account = roles.credit_account,
                                      !.type = At(keywords, 0),
                                      !.amount = amount ]
      currency == toUpperCase(At(keywords, 2))
      p2      == [ p1 EXCEPT !.currency = currency ]
      hasOn   == At(keywords, 11) # Absent /\ toUpperCase(At(keywords, 11)) = ON
      p3      == IF hasOn THEN [ p2 EXCEPT !.execute_by = At(keywords, 12) ] ELSE p2
      d       == Find(accounts, p3.debit_account)
      c       == Find(accounts, p3.credit_account)
      pending == IsScheduled(p3.execute_by, today)
      after   == Settle(accounts, d, c, amount.mant, pending)
  IN  IF InvalidAmount(amount) THEN Caught("AM01", p1, accounts)
      ELSE IF currency \notin supported THEN Caught("CU02", p1, accounts)
      ELSE IF ~isValidAccountId(At(keywords, 5)) THEN Caught("AC04", p2, accounts)
      \* isValidAccountId(undefined) reads .length of undefined: a TypeError
      ELSE IF At(keywords, 10) = Absent THEN Caught("undefined", p2, accounts)
      ELSE IF ~isValidAccountId(At(keywords, 10)) THEN Caught("AC04", p2, accounts)
      ELSE IF hasOn /\ InvalidDate(At(keywords, 12)) THEN Caught("DT01", p2, accounts)
      ELSE IF d = 0 \/ c = 0 THEN Caught("AC03", p3, accounts)
      ELSE IF CurrencyMismatch(p3.currency, accounts[d], accounts[c])
           THEN Caught("CU01", p3, accounts)
      ELSE IF p3.debit_account = p3.credit_account THEN Caught("AC02", p3, accounts)
      ELSE IF accounts[d].balance < amount.mant THEN Caught("AC01", p3, accounts)
      ELSE [ response |->
               [ type |-> p3.type,
                 amount |-> p3.amount,
                 currency |-> p3.currency,
                 debit_account |-> p3.debit_account,
                 credit_account |-> p3.credit_account,
                 execute_by |-> p3.execute_by,
                 status |-> IF pending THEN "pending" ELSE "successful",
                 status_code |-> IF pending THEN "AP02" ELSE "AP00",
                 accounts |-> << Snapshot(after[d], accounts[d].balance),
                                 Snapshot(after[c], accounts[c].balance) >> ],
             accounts |-> after,
             writes |-> IF pending THEN 0 ELSE 1 ]

\* parseInstruction(serviceData), with the day the system clock shows.
\* It yields the returned record, the account records as the call leaves
\* them and the number of times the balance update ran.
parseInstruction(data, today) ==
  LET raw      == splitData(data.instruction)
      keywords == Normalize(raw)
  IN  IF Len(keywords) < 8 THEN Caught("SY01", EmptyParsed, data.accounts)
      ELSE IF keywords[1] # DEBIT /\ keywords[1] # CREDIT
           THEN Caught("SY03", EmptyParsed, data.accounts)
      ELSE IF isOutOfOrder(keywords, keywords[1])
           THEN Caught("SY02", EmptyParsed, data.accounts)
      ELSE Process(keywords, data.accounts, today)


(* ------------------------------------------------------------------ *)
(* Requests                                                            *)
(* ------------------------------------------------------------------ *)

\* new Date().toISOString().slice(0, 10), the clock counting the days
\* since 2026-11-01.
toISODate(clock) ==
  LET day == clock + 1
  IN  <<"2", "0", "2", "6", "-", "1", "1", "-">>
        \o << Printable[17 + (day \div 10)], Printable[17 + (day % 10)] >>

\* Account ids and currencies of the supplied records.
IdA == <<"A", "-", "1">>
IdB == <<"b", "@", "2">>
AccountCurrencies ==
  { << <<"N", "G", "N">>, <<"N", "G", "N">> >>,
    << <<"n", "g", "n">>, <<"N", "G", "N">> >>,
    << <<"N", "G", "N">>, <<"U", "S", "D">> >> }

\* Words a request can carry at each free position.
TypeWords == { DEBIT, <<"c", "r", "e", "d", "i", "t">>, <<"S", "E", "N", "D">> }
AmountWords == { <<"2">>, <<"0">>, <<"2", ".", "5">>, <<"N", "G", "N">> }
CurrencyWords == { <<"n", "g", "n">>, <<"U", "S", "D">>, <<"2">> }
IdUnknown == <<"a", "-", "1">>
IdMalformed == <<"A", "_", "1">>
IdPairs ==
  { <<IdA, IdB>>, <<IdB, IdA>>, <<IdA, IdA>>, <<IdA, IdUnknown>>, <<IdUnknown, IdB>>,
    <<IdMalformed, IdB>>, <<IdA, IdMalformed>>, <<IdUnknown, IdMalformed>> }
Shapes == { "debit", "credit" }

Date1 == <<"2", "0", "2", "6", "-", "1", "1", "-", "0", "1">>
Date2 == <<"2", "0", "2", "6", "-", "1", "1", "-", "0", "2">>
Tails ==
  { <<>>,
    <<ON, Date1>>,
    << <<"o", "n">>, Date2 >>,
    <<ON, <<"2", "0", "2", "6", "/", "1", "1", "/", "0", "2">> >>,
    <<ON>>,
    << <<"A", "T">>, Date1 >>,
    <<ON, Date1, <<"N", "O", "W">> >> }

\* The words of a request written in the DEBIT shape (upper case) or in
\* the CREDIT shape (mixed case).
Words(type, shape, amount, currency, id1, id2, tail) ==
  IF shape = "debit"
  THEN << type, amount, currency, FROM, ACCOUNT, id1, FOR, CREDIT, TO, ACCOUNT, id2 >> \o tail
  ELSE << type, amount, currency, <<"t", "o">>, <<"A", "c", "c", "o", "u", "n", "t">>, id1,
          <<"f", "o", "r">>, <<"D", "e", "b", "i", "t">>, <<"f", "r", "o", "m">>,
          <<"a", "c", "c", "o", "u", "n", "t">>, id2 >> \o tail

\* The instruction string: the words separated by sep.
RECURSIVE Join(_, _)
Join(words, sep) ==
  IF words = <<>> THEN <<>>
  ELSE IF Len(words) = 1 THEN words[1]
  ELSE words[1] \o sep \o Join(Tail(words), sep)

\* DEBIT-shaped requests use single spaces; CREDIT-shaped ones a leading
\* space and double spaces.
Render(shape, words) ==
  IF shape = "debit" THEN Join(words, <<" ">>) ELSE <<" ">> \o Join(words, <<" ", " ">>)

\* Complete requests, and requests cut short after 7 to 10 words.
Instructions ==
  { Render(sh, Words(ty, sh, am, cu, ids[1], ids[2], tl)) :
      ty \in TypeWords, sh \in Shapes, am \in AmountWords, cu \in CurrencyWords,
      ids \in IdPairs, tl \in Tails }
  \cup
  { Render(sh, SubSeq(Words(ty, sh, am, cu, i1, IdB, <<>>), 1, n)) :
      ty \in TypeWords, sh \in Shapes, am \in AmountWords, cu \in CurrencyWords,
      i1 \in {IdA, IdMalformed}, n \in 7..10 }

\* The response slot before a call returns.
NoResponse ==
  [ type |-> Absent, amount |-> NullNum, currency |-> Absent,
    debit_account |-> Absent, credit_account |-> Absent, execute_by |-> Absent,
    status |-> "none", status_code |-> "none", accounts |-> <<>> ]

(* ------------------------------------------------------------------ *)
(* State machine                                                       *)
(* ------------------------------------------------------------------ *)

VARIABLES
  accounts,     \* the account records of the payload (mutated in place)
  clock,        \* days since 2026-11-01 on the system clock
  pc,           \* "idle" | "done": position of the endpoint handler
  instruction,  \* the instruction string of the request being served
  response,     \* what parseInstruction returned
  entry,        \* the account records as they were when the call began
  writes        \* times the balance update ran in the call

vars == << accounts, clock, pc, instruction, response, entry, writes >>

Init ==
  /\ \E b \in 0..MaxBalance, cur \in AccountCurrencies :
       accounts = << [id |-> IdA, balance |-> b, currency |-> cur[1]],
                     [id |-> IdB, balance |-> MaxBalance - b, currency |-> cur[2]] >>
  /\ clock = 0
  /\ pc = "idle"
  /\ instruction = <<>>
  /\ response = NoResponse
  /\ entry = accounts
  /\ writes = 0

\* The endpoint handler calls parseInstruction with the payload.
Call(instr) ==
  /\ pc = "idle"
  /\ LET r == parseInstruction([accounts |-> accounts, instruction |-> instr],
                               toISODate(clock))
     IN  /\ response' = r.response
         /\ accounts' = r.accounts
         /\ writes' = r.writes
  /\ instruction' = instr
  /\ entry' = accounts
  /\ pc' = "done"
  /\ UNCHANGED clock

\* The endpoint handler returns the response; the next request may come.
Return ==
  /\ pc = "done"
  /\ pc' = "idle"
  /\ instruction' = <<>>
  /\ response' = NoResponse
  /\ entry' = accounts
  /\ writes' = 0
  /\ UNCHANGED << accounts, clock >>

\* Midnight passes between two requests.
Tick ==
  /\ pc = "idle"
  /\ clock < MaxDays
  /\ clock' = clock + 1
  /\ UNCHANGED << accounts, pc, instruction, response, entry, writes >>

\* A request arrives while the handler is free.
Request == pc = "idle" /\ \E instr \in Instructions : Call(instr)

Next ==
  \/ Request
  \/ Return
  \/ Tick

Spec == Init /\ [][Next]_vars

\* One set of account records, the first holding all the money, served by
\* a sequence of calls.
InitLedger == Init /\ accounts[1].balance = MaxBalance

LedgerSpec == InitLedger /\ [][Next]_vars


(* ------------------------------------------------------------------ *)
(* The request being served, as the properties below read it           *)
(* ------------------------------------------------------------------ *)

Done == pc = "done"

\* The words of the instruction, zero-based through At.
toks == splitData(instruction)

InstrType(t) == toUpperCase(At(t, 0))

\* The debit account is named first by DEBIT and second by CREDIT.
DebitId(t) == IF InstrType(t) = DEBIT THEN At(t, 5) ELSE At(t, 10)
CreditId(t) == IF InstrType(t) = DEBIT THEN At(t, 10) ELSE At(t, 5)

InstrAmount(t) == Number(toUpperCase(At(t, 1)))
InstrCurrency(t) == toUpperCase(At(t, 2))

HasOn(t) == At(t, 11) # Absent /\ toUpperCase(At(t, 11)) = ON
OnDate(t) == At(t, 12)
DateShaped(t) == OnDate(t) # Absent /\ Len(OnDate(t)) = 10 /\ OnDate(t)[5] = "-" /\ OnDate(t)[8] = "-"

\* Position of an id in the records supplied to the call, 0 if none.
EntryIndex(id) ==
  IF id # Absent /\ \E i \in 1..Len(entry) : entry[i].id = id
  THEN CHOOSE i \in 1..Len(entry) : entry[i].id = id
  ELSE 0

\* The keyword skeleton of the instruction's type, and nothing but ON at
\* position 11.
SkeletonOk(t) ==
  /\ Len(t) >= 11
  /\ InstrType(t) \in {DEBIT, CREDIT}
  /\ ~isOutOfOrder(Normalize(t), InstrType(t))

\* Every validation check passes (the date check apart).
PassesChecks(t) ==
  /\ SkeletonOk(t)
  /\ isPositiveInteger(InstrAmount(t))
  /\ InstrCurrency(t) \in supported
  /\ isValidAccountId(DebitId(t)) /\ isValidAccountId(CreditId(t))
  /\ EntryIndex(DebitId(t)) # 0 /\ EntryIndex(CreditId(t)) # 0
  /\ entry[EntryIndex(DebitId(t))].currency = entry[EntryIndex(CreditId(t))].currency
  /\ toUpperCase(entry[EntryIndex(DebitId(t))].currency) = InstrCurrency(t)
  /\ DebitId(t) # CreditId(t)
  /\ entry[EntryIndex(DebitId(t))].balance >= InstrAmount(t).mant

\* The balance of an account record after the call, by id.
BalanceAfter(id) == accounts[EntryIndex(id)].balance
BalanceBefore(id) == entry[EntryIndex(id)].balance

(* ------------------------------------------------------------------ *)
(* C1                                                                  *)
(* ------------------------------------------------------------------ *)

\* C1: an instruction of either type without an ON clause that passes every
\* validation check returns successful / AP00; the debit account (token 5
\* of a DEBIT, token 10 of a CREDIT) ends amount lower and the credit
\* account amount higher, in the records and in the returned snapshots.
C1_ImmediateTransfer ==
  LET t == toks IN
  (Done /\ ~HasOn(t) /\ PassesChecks(t)) =>
     /\ response.status = "successful"
     /\ response.status_code = "AP00"
     /\ BalanceAfter(DebitId(t)) = BalanceBefore(DebitId(t)) - InstrAmount(t).mant
     /\ BalanceAfter(CreditId(t)) = BalanceBefore(CreditId(t)) + InstrAmount(t).mant
     /\ Len(response.accounts) = 2
     /\ response.accounts[1].id = DebitId(t)
     /\ response.accounts[1].balance = response.accounts[1].balance_before - InstrAmount(t).mant
     /\ response.accounts[1].balance_before = BalanceBefore(DebitId(t))
     /\ response.accounts[2].id = CreditId(t)
     /\ response.accounts[2].balance = response.accounts[2].balance_before + InstrAmount(t).mant
     /\ response.accounts[2].balance_before = BalanceBefore(CreditId(t))

\* A CREDIT instruction without ON clause was executed.
C1_Witness ==
  LET t == toks IN
  /\ Done /\ ~HasOn(t) /\ PassesChecks(t)
  /\ InstrType(t) = CREDIT
  /\ DebitId(t) = At(t, 10)
  /\ response.status_code = "AP00"

(* ------------------------------------------------------------------ *)
(* C2                                                                  *)
(* ------------------------------------------------------------------ *)

\* C2: an instruction that passes every validation check and carries an ON
\* date strictly greater than today's date returns pending / AP02, both
\* snapshots have balance = balance_before, and the supplied records are
\* left as they were.
C2_FutureDatePending ==
  LET t == toks IN
  (Done /\ PassesChecks(t) /\ HasOn(t) /\ DateShaped(t)
        /\ StrGreater(OnDate(t), toISODate(clock))) =>
     /\ response.status = "pending"
     /\ response.status_code = "AP02"
     /\ Len(response.accounts) = 2
     /\ \A i \in 1..2 : response.accounts[i].balance = response.accounts[i].balance_before
     /\ response.accounts[1].balance = BalanceBefore(DebitId(t))
     /\ response.accounts[2].balance = BalanceBefore(CreditId(t))
     /\ accounts = entry

\* A valid instruction dated after today was served.
C2_Witness ==
  LET t == toks IN
  /\ Done /\ PassesChecks(t) /\ HasOn(t) /\ DateShaped(t)
  /\ StrGreater(OnDate(t), toISODate(clock))
  /\ response.status = "pending"

(* ------------------------------------------------------------------ *)
(* C7                                                                  *)
(* ------------------------------------------------------------------ *)

\* C7: within one call the balance update runs at most once and only when
\* the returned status is successful; on every failed or pending outcome
\* every supplied account record is as it was at entry.
C7_NoMutationUnlessSuccessful ==
  Done =>
     /\ writes <= 1
     /\ (writes = 1 => response.status = "successful")
     /\ (response.status \in {"failed", "pending"} => accounts = entry)
     /\ (accounts # entry => response.status = "successful" /\ writes = 1)

\* An AC01 failure (balance below the amount) and nothing was written.
C7_Witness ==
  LET t == toks IN
  /\ Done
  /\ response.status = "failed"
  /\ response.status_code = "AC01"
  /\ EntryIndex(DebitId(t)) # 0
  /\ BalanceBefore(DebitId(t)) < InstrAmount(t).mant
  /\ accounts = entry


(* ------------------------------------------------------------------ *)
(* C3                                                                  *)
(* ------------------------------------------------------------------ *)

Today == toISODate(clock)

\* The instruction with the two words of its ON clause taken out.
WithoutOn(t) == SubSeq(t, 1, 11) \o SubSeq(t, 14, Len(t))

\* What the call would have done, from the same records, without the clause.
PlainRun(t) ==
  parseInstruction([accounts |-> entry,
                    instruction |-> Join(WithoutOn(t), <<" ">>)], Today)

SameAsPlainRun(t) ==
  LET plain == PlainRun(t)
  IN  /\ response.status = plain.response.status
      /\ response.status_code = plain.response.status_code
      /\ accounts = plain.accounts
      /\ response.accounts = plain.response.accounts

\* C3 as stated: every instruction whose ON date has the YYYY-MM-DD shape
\* and is not after today gets the status, the status code and the
\* balances of the same instruction without its ON clause.
C3_AsStated ==
  LET t == toks IN
  (Done /\ HasOn(t) /\ DateShaped(t) /\ ~StrGreater(OnDate(t), Today)) => SameAsPlainRun(t)

\* C3 (amended): an instruction that ends with its ON date, the date having
\* the YYYY-MM-DD shape and not being after today (today included), gets
\* the status, the status code and the balances of the same instruction
\* without its ON clause.
C3_DueDateRunsNow ==
  LET t == toks IN
  (Done /\ HasOn(t) /\ DateShaped(t) /\ Len(t) = 13 /\ ~StrGreater(OnDate(t), Today))
     => SameAsPlainRun(t)

\* An instruction dated today was executed at once.
C3_Witness ==
  LET t == toks IN
  /\ Done /\ HasOn(t) /\ DateShaped(t) /\ Len(t) = 13
  /\ OnDate(t) = Today
  /\ response.status = "successful"
  /\ accounts # entry

(* ------------------------------------------------------------------ *)
(* C4                                                                  *)
(* ------------------------------------------------------------------ *)

\* Amount and currency have changed places: a currency code at position
\* 1 and a number at position 2, inside a matching keyword skeleton.
Swapped(t) ==
  /\ SkeletonOk(t)
  /\ toUpperCase(At(t, 1)) \in supported
  /\ Number(At(t, 2)).kind = "num"

\* C4: an instruction that matches the keyword skeleton but has amount and
\* currency swapped is rejected with status failed and code SY02.
C4_SwappedIsKeywordOrder ==
  LET t == toks IN
  (Done /\ Swapped(t)) => (response.status = "failed" /\ response.status_code = "SY02")

(* ------------------------------------------------------------------ *)
(* C5                                                                  *)
(* ------------------------------------------------------------------ *)

DocumentedCodes ==
  { "SY01", "SY02", "SY03", "AM01", "CU01", "CU02", "AC01", "AC02", "AC03", "AC04",
    "DT01", "AP00", "AP02" }

\* C5: every call returns a status among successful / pending / failed and
\* one of the thirteen documented status codes, failed exactly when the
\* code is neither AP00 nor AP02.
C5_DocumentedOutcome ==
  Done =>
     /\ response.status \in {"successful", "pending", "failed"}
     /\ response.status_code \in DocumentedCodes
     /\ (response.status = "failed" <=> response.status_code \notin {"AP00", "AP02"})


(* ------------------------------------------------------------------ *)
(* C6                                                                  *)
(* ------------------------------------------------------------------ *)

\* The rules in the order in which the first violated one is to win.
RuleOrder ==
  << "SY01", "SY03", "SY02", "AM01", "CU02", "AC04", "DT01", "AC03", "CU01", "AC02",
     "AC01" >>

\* Each rule on its own, read off the request and the supplied records.
Violates(t, rule) ==
  CASE rule = "SY01" -> Len(t) < 8
    [] rule = "SY03" -> InstrType(t) \notin {DEBIT, CREDIT}
    [] rule = "SY02" -> isOutOfOrder(Normalize(t), InstrType(t))
    [] rule = "AM01" -> ~isPositiveInteger(InstrAmount(t))
    [] rule = "CU02" -> InstrCurrency(t) \notin supported
    [] rule = "AC04" -> ~isValidAccountId(At(t, 5)) \/ ~isValidAccountId(At(t, 10))
    [] rule = "DT01" -> HasOn(t) /\ ~DateShaped(t)
    [] rule = "AC03" -> EntryIndex(DebitId(t)) = 0 \/ EntryIndex(CreditId(t)) = 0
    [] rule = "CU01" -> /\ EntryIndex(DebitId(t)) # 0 /\ EntryIndex(CreditId(t)) # 0
                        /\ CurrencyMismatch(InstrCurrency(t), entry[EntryIndex(DebitId(t))],
                                            entry[EntryIndex(CreditId(t))])
    [] rule = "AC02" -> DebitId(t) # Absent /\ DebitId(t) = CreditId(t)
    [] rule = "AC01" -> /\ EntryIndex(DebitId(t)) # 0
                        /\ isPositiveInteger(InstrAmount(t))
                        /\ BalanceBefore(DebitId(t)) < InstrAmount(t).mant

Violated(t) == { i \in 1..Len(RuleOrder) : Violates(t, RuleOrder[i]) }

FirstViolated(t) == RuleOrder[CHOOSE i \in Violated(t) : \A j \in Violated(t) : i <= j]

\* C6: when an instruction violates several rules, the returned code is that
\* of the first violated rule in the order SY01, SY03, SY02, AM01, CU02,
\* AC04, DT01, AC03, CU01, AC02, AC01; AC02 is returned only when both
\* accounts exist and the currency checks pass, AC01 only when every other
\* check passes.
C6_FirstViolatedRuleWins ==
  LET t == toks IN
  (Done /\ Violated(t) # {}) =>
     /\ response.status_code = FirstViolated(t)
     /\ (response.status_code = "AC02" =>
           ~Violates(t, "AC03") /\ ~Violates(t, "CU01") /\ ~Violates(t, "CU02"))
     /\ (response.status_code = "AC01" => Violated(t) = {Len(RuleOrder)})

(* ------------------------------------------------------------------ *)
(* C8                                                                  *)
(* ------------------------------------------------------------------ *)

\* The snapshot of an extracted id that the supplied records hold.
EntrySnapshot(id) ==
  IF EntryIndex(id) = 0 THEN <<>>
  ELSE << [ id |-> id,
            balance |-> BalanceBefore(id),
            balance_before |-> BalanceBefore(id),
            currency |-> entry[EntryIndex(id)].currency ] >>

\* C8: on every failed outcome the accounts list holds one snapshot per
\* extracted debit / credit id found among the supplied records, debit
\* first, none for an id not found, each with balance_before = balance =
\* the supplied balance; it is empty after SY01, SY02 and SY03.
C8_FailureSnapshots ==
  LET t == toks IN
  (Done /\ response.status = "failed") =>
     response.accounts =
        IF response.status_code \in {"SY01", "SY02", "SY03"} THEN <<>>
        ELSE EntrySnapshot(DebitId(t)) \o EntrySnapshot(CreditId(t))

(* ------------------------------------------------------------------ *)
(* C9                                                                  *)
(* ------------------------------------------------------------------ *)

BusinessCodes == { "AM01", "CU02", "AC04", "DT01", "AC03", "CU01", "AC02", "AC01" }

\* C9: every failure of the business validator echoes the extracted
\* fields: the upper-cased token 0 as type, the numeric parse of token 1 as
\* amount, the upper-cased token 2 as currency, tokens 5 and 10 as debit /
\* credit account by type -- also the value that was found invalid.
C9_FailureEchoesFields ==
  LET t == toks IN
  (Done /\ response.status_code \in BusinessCodes) =>
     /\ response.type = InstrType(t)
     /\ response.amount = InstrAmount(t)
     /\ response.currency = InstrCurrency(t)
     /\ response.debit_account = DebitId(t)
     /\ response.credit_account = CreditId(t)

(* ------------------------------------------------------------------ *)
(* C10                                                                 *)
(* ------------------------------------------------------------------ *)

\* The checks that come before the currency comparison pass.
ReachesCurrencyCheck(t) ==
  /\ SkeletonOk(t)
  /\ isPositiveInteger(InstrAmount(t))
  /\ InstrCurrency(t) \in supported
  /\ isValidAccountId(DebitId(t)) /\ isValidAccountId(CreditId(t))
  /\ (HasOn(t) => DateShaped(t))
  /\ EntryIndex(DebitId(t)) # 0 /\ EntryIndex(CreditId(t)) # 0

\* C10: past the amount, currency, id-format, date and existence checks,
\* CU01 is returned exactly when the two account currencies are not both
\* equal, ignoring case, to the instruction's currency.
C10_CurrencyMismatchIgnoringCase ==
  LET t == toks IN
  (Done /\ ReachesCurrencyCheck(t)) =>
     ( response.status_code = "CU01" <=>
         ~ /\ toUpperCase(entry[EntryIndex(DebitId(t))].currency) = InstrCurrency(t)
           /\ toUpperCase(entry[EntryIndex(CreditId(t))].currency) = InstrCurrency(t) )


(* ------------------------------------------------------------------ *)
(* C11                                                                 *)
(* ------------------------------------------------------------------ *)

RECURSIVE SumBalances(_)
SumBalances(records) ==
  IF records = <<>> THEN 0 ELSE Head(records).balance + SumBalances(Tail(records))

RECURSIVE Pow10(_)
Pow10(n) == IF n = 0 THEN 1 ELSE 10 * Pow10(n - 1)

\* The amount of the instruction is a number above the given balance.
AmountExceeds(t, balance) ==
  /\ InstrAmount(t).kind = "num"
  /\ InstrAmount(t).mant > balance * Pow10(InstrAmount(t).scale)

\* C11: after any sequence of calls on the same account records (unique
\* ids, balances not negative at the start) the balances add up to their
\* initial total and none is negative; a successful call moves exactly the
\* amount from the debit record to a different credit record; a call whose
\* amount exceeds the debit balance leaves every balance as it was.
C11_LedgerConserved ==
  LET t == toks IN
  /\ SumBalances(accounts) = MaxBalance
  /\ \A i \in 1..Len(accounts) : accounts[i].balance >= 0
  /\ (Done /\ response.status = "successful") =>
        /\ EntryIndex(DebitId(t)) # 0 /\ EntryIndex(CreditId(t)) # 0
        /\ EntryIndex(DebitId(t)) # EntryIndex(CreditId(t))
        /\ isPositiveInteger(InstrAmount(t))
        /\ BalanceAfter(DebitId(t)) = BalanceBefore(DebitId(t)) - InstrAmount(t).mant
        /\ BalanceAfter(CreditId(t)) = BalanceBefore(CreditId(t)) + InstrAmount(t).mant
        /\ \A i \in 1..Len(accounts) :
              i \notin {EntryIndex(DebitId(t)), EntryIndex(CreditId(t))} => accounts[i] = entry[i]
  /\ (Done /\ EntryIndex(DebitId(t)) # 0 /\ AmountExceeds(t, BalanceBefore(DebitId(t)))) =>
        accounts = entry

\* The second record, empty at the start, pays in a later call what an
\* earlier call credited to it.
C11_Witness ==
  LET t == toks IN
  /\ Done
  /\ response.status = "successful"
  /\ DebitId(t) = IdB
  /\ BalanceAfter(IdB) = BalanceBefore(IdB) - InstrAmount(t).mant
  /\ SumBalances(accounts) = MaxBalance

====
